---- MODULE Spec2Model ----
(***************************************************************************)
(* Vetting-expression evaluation of vetr: the two evaluators of the        *)
(* repository, the pairlist evaluator of src/src/eval.c (returns TRUE or a *)
(* pairlist of messages, then removes duplicates) and the trace evaluator  *)
(* of src/unnamed/part_000 (appends one VALC_res per evaluated token to a  *)
(* VALC_res_list and renders the failures afterwards).                     *)
(*                                                                         *)
(* Text is modelled as a sequence of one-character strings, so that        *)
(* sprintf, strlen and textual identity are computed, not assumed.         *)
(*                                                                         *)
(* R values are modelled as values: the memory manager of R is below the   *)
(* level of the model, and a value a C variable refers to is taken to stay *)
(* alive while the call runs.  (In eval.c the pairlist err_list is not on  *)
(* the protection stack while the second argument of || is evaluated, line *)
(* 61 protects R_NilValue; what a collection at that point would do to it  *)
(* is not part of the model.)                                              *)
(***************************************************************************)
EXTENDS Integers, Sequences, FiniteSets, TLC

\* the code VALC_all gives a character vector (see VALC_all)
VARIABLE chr_code

\* what the call of error() of part_000 lines 61-64 does (see ModeCheck)
VARIABLE bad_format

(***************************************************************************)
(* Bounds of the model                                                     *)
(***************************************************************************)
\* largest number of tokens (leaves) of a vetting expression
MaxLeaves == 3

(***************************************************************************)
(* Program constants                                                       *)
(***************************************************************************)
MODE_AND == 1
MODE_OR == 2
MODE_STD == 10
MODE_TPL == 999
INT_MAX == 2147483647

(***************************************************************************)
(* Text                                                                    *)
(***************************************************************************)
\* the backtick character (the lexer accepts none inside a string)
BQ == "BQ"
Str_FALSE == <<"F","A","L","S","E">>
Str_NA == <<"N","A">>
Str_contains_NAs == <<"c","o","n","t","a","i","n","s"," ","N","A","s">>
Str_zero_length == <<"z","e","r","o"," ","l","e","n","g","t","h">>
Str_contains_non_TRUE ==
  <<"c","o","n","t","a","i","n","s"," ","n","o","n","-","T","R","U","E"," ",
    "v","a","l","u","e","s">>
Str_is_not_all_TRUE ==
  <<"i","s"," ","n","o","t"," ","a","l","l"," ","T","R","U","E">>
Str_is_not_TRUE == <<"i","s"," ","n","o","t"," ","T","R","U","E">>
Str_tok_base ==
  <<"i","s"," ","\"","%","s","\""," ","i","n","s","t","e","a","d"," ","o","f",
    " ","a"," ","\"","l","o","g","i","c","a","l","\"">>
\* eval.c line 199: backtick, %s, backtick, space, %s, space, %s in parentheses
Str_err_base_evalc == <<BQ,"%","s",BQ," ","%","s"," ","(","%","s",")">>
\* part_000 line 284: %s, %s, space, %s in parentheses
Str_err_base == <<"%","s","%","s"," ","(","%","s",")">>

\* C sprintf restricted to the %s conversion: the characters written, without
\* the terminating NUL; a %s without argument left writes nothing
RECURSIVE sprintf(_, _)
sprintf(fmt, args) ==
  IF fmt = <<>> THEN <<>>
  ELSE IF Len(fmt) >= 2 /\ fmt[1] = "%" /\ fmt[2] = "s"
       THEN (IF args = <<>> THEN <<>> ELSE Head(args))
              \o sprintf(SubSeq(fmt, 3, Len(fmt)),
                         IF args = <<>> THEN <<>> ELSE Tail(args))
       ELSE <<fmt[1]>> \o sprintf(Tail(fmt), args)

strlen(s) == Len(s)

\* the bytes sprintf writes for a text: its characters and the closing NUL
BytesWritten(text) == strlen(text) + 1

\* sprintf wrote past the end of the buffer R_alloc gave it, which C leaves
\* undefined
WriteBeyondBuffer == "write beyond the buffer"

\* mkString / a character(1): a STRSXP of length one
mkString(chars) == [type |-> "STRSXP", strs |-> <<chars>>]

(***************************************************************************)
(* Parsed vetting expressions.  VALC_parse (not part of the model) hands   *)
(* VALC_evaluate a pair (lang, act_codes) of parallel trees; a node of the *)
(* model holds both: type = TYPEOF(lang), codes = TYPEOF(act_codes),       *)
(* car = TYPEOF(CAR(act_codes)), lcar = TYPEOF(CAR(lang)), caar =          *)
(* TYPEOF(CAAR(act_codes)), mode = the integer code, kids = the            *)
(* elements of CDR(lang) paired with those of CDR(act_codes).  A token     *)
(* (leaf) also holds expr, its deparsed source text, errmsg, its err.msg   *)
(* attribute, and val, what R_tryEval yields for it in the evaluation      *)
(* environment.                                                            *)
(***************************************************************************)
R_NilValue == [type |-> "NILSXP"]
\* the outcome of R_tryEval when the expression raises an R error
EvalError == [type |-> "error"]
ScalarLogical(b) == [type |-> "LGLSXP", lgl |-> <<b>>]
R_TRUE == ScalarLogical("TRUE")
R_FALSE == ScalarLogical("FALSE")
\* a numeric vector of the given length
Numeric(n) == [type |-> "REALSXP", len |-> n]

Token(mode, expr, val) ==
  [type |-> "LANGSXP", codes |-> "LISTSXP", car |-> "INTSXP",
   lcar |-> "SYMSXP", caar |-> "NILSXP", mode |-> mode,
   kids |-> <<>>, expr |-> expr, errmsg |-> R_NilValue, val |-> val]
Call(mode, kids) ==
  [type |-> "LANGSXP", codes |-> "LISTSXP", car |-> "INTSXP",
   lcar |-> "SYMSXP", caar |-> "NILSXP", mode |-> mode,
   kids |-> kids, expr |-> <<>>, errmsg |-> R_NilValue, val |-> R_NilValue]

Expr_x_gt_0 == <<"x"," ",">"," ","0">>
Expr_is_num == <<"i","s",".","n","u","m","(","x",")">>
Expr_stop == <<"s","t","o","p","(",")">>
Expr_numeric_2 == <<"n","u","m","e","r","i","c","(","2",")">>

\* the tokens the model draws expressions from: a predicate that holds, one
\* that fails, one whose evaluation raises an error, and a template, which
\* the value being validated matches or not
Tokens ==
  { Token(MODE_STD, Expr_is_num, R_TRUE),
    Token(MODE_STD, Expr_x_gt_0, R_FALSE),
    Token(MODE_STD, Expr_stop, EvalError),
    Token(MODE_TPL, Expr_numeric_2, Numeric(2)) }

\* the values being validated
ArgValues == { Numeric(1), Numeric(2) }

\* binary expressions of exactly n tokens (the parser folds chains of && and
\* || into nested two-argument calls)
RECURSIVE Exprs(_)
Exprs(n) ==
  IF n = 1 THEN Tokens
  ELSE UNION { { Call(m, <<l, r>>) :
                   m \in {MODE_AND, MODE_OR}, l \in Exprs(i), r \in Exprs(n - i) } :
               i \in 1..(n - 1) }

AllExprs == UNION { Exprs(n) : n \in 1..MaxLeaves }

IsToken(lang) == lang.mode \in {MODE_STD, MODE_TPL}

\* the subexpression at a path (a sequence of argument positions)
RECURSIVE NodeAt(_, _)
NodeAt(lang, path) ==
  IF path = <<>> THEN lang ELSE NodeAt(lang.kids[Head(path)], Tail(path))


(***************************************************************************)
(* Collaborators whose code is outside the evaluator                       *)
(***************************************************************************)
\* VALC_all: classification of a token's value as an integer code
\*   1 all TRUE, 0 contains non-TRUE values, -1 FALSE, -2 not logical,
\*   -3 NA, -4 contains NAs, -5 zero length
\* For a character vector the code is chr_code: -2 as for any value that is
\* not logical, or -6, the code for which part_000 lines 232-247 read the
\* value as a character vector.  The body of VALC_all is not in the sources,
\* so which of the two the build gives is left open.
ChrCodes == {-2, -6}
VALC_all(vec) ==
  IF vec.type = "STRSXP" THEN chr_code
  ELSE IF vec.type # "LGLSXP" THEN -2
  ELSE LET v == vec.lgl
           n == Len(v)
           nas == { i \in 1..n : v[i] = "NA" }
           trues == { i \in 1..n : v[i] = "TRUE" }
       IN IF n = 0 THEN -5
          ELSE IF Cardinality(nas) = n THEN -3
          ELSE IF nas # {} /\ Cardinality(nas) + Cardinality(trues) = n THEN -4
          ELSE IF Cardinality(trues) = n THEN 1
          ELSE IF n = 1 THEN -1
          ELSE IF nas = {} /\ trues = {} THEN -1
          ELSE 0

\* the rendering of a structural mismatch of lengths
Str_should_be_length ==
  <<"s","h","o","u","l","d"," ","b","e"," ","l","e","n","g","t","h"," ">>
Digit(n) == <<"0","1","2","3","4","5","6","7","8","9">>[n + 1]
\* ALIKEC_alike_internal: structural match of the value against the template;
\* wrap holds the report of a mismatch
ALIKEC_alike_internal(target, current) ==
  IF target = current
  THEN [success |-> TRUE, wrap |-> R_NilValue]
  ELSE [success |-> FALSE,
        wrap |-> [type |-> "VECSXP", target |-> target, current |-> current]]
\* ALIKEC_res_as_strsxp: the report rendered by the matcher itself
ALIKEC_res_as_strsxp(res) ==
  mkString(Str_should_be_length \o <<Digit(res.wrap.target.len)>>
             \o <<" ","(","i","s"," ">> \o <<Digit(res.wrap.current.len)>>
             \o <<")">>)
\* ALIKEC_pad_or_quote: the source text of a call as it opens a message
ALIKEC_pad_or_quote(lang) == lang.expr \o <<" ">>

\* VALC_res_list_init and VALC_res_add: idx is the next free slot
VALC_res_list_init == [list |-> <<>>, idx |-> 0]
VALC_res_add(res_list, res) ==
  [list |-> Append(res_list.list, res), idx |-> res_list.idx + 1]

\* A run of one evaluator: what it has built, the tokens R_tryEval was called
\* on (by path, in call order), and the R error that ended it, if any.
\* error() and VALC_arg_error do not return: once err is set nothing more of
\* the call is executed.
Raise(run, msg) == [run EXCEPT !.err = msg]
\* part_000 also carries depth, the number of entries the call has on the
\* protection stack of R
PROTECT(run) == [run EXCEPT !.depth = @ + 1]
UNPROTECT(run, n) == [run EXCEPT !.depth = @ - n]
VALC_arg_error(run, msg) == Raise(run, msg)
Failed(run) == run.err # ""


(***************************************************************************)
(* part_000: the trace evaluator                                           *)
(***************************************************************************)
\* the process dies instead of raising an R error
Killed == "killed"

\* lines 61-64: the comma after "%s%s" is missing, so the format of this
\* call of error() is "%s%sInternal Error: ... contact " and its only
\* argument "maintainer.".  A format with more conversions than arguments
\* is undefined in C: error() reads an argument that was never passed.
\* Either what it reads can be printed and the R error is raised (with a
\* garbled text), or the read faults and the process is killed.
BadFormatOutcomes == {"raised", Killed}

\* lines 58-87: the mode of a node, or the internal error of a mismatch
\* between the shapes of lang and act_codes
ModeCheck(lang) ==
  IF lang.codes = "LISTSXP"
  THEN IF lang.type \notin {"LANGSXP", "LISTSXP"}
       THEN IF bad_format = Killed THEN Killed
            ELSE "Internal Error: mismatched language and eval type tracking 1"
       ELSE IF lang.car # "INTSXP"
            THEN "Internal error: no integer codes produced by parsing process"
            ELSE ""
  ELSE IF lang.type \in {"LANGSXP", "LISTSXP"}
       THEN "Internal Error: mismatched language and eval type tracking 2"
       ELSE ""

\* a slip: && goes on to its second argument after a failure
ReturnsEarly_AndGoesOn(mode, res_val) == res_val.success /\ mode = MODE_OR

\* a slip: || goes on to its second argument after a success
ReturnsEarly_OrGoesOn(mode, res_val) == ~res_val.success /\ mode = MODE_AND

\* lines 102-109: after an argument of && or || has been evaluated, whether
\* the call returns at once (res_val is the last recorded result)
ReturnsEarly(mode, res_val) ==
  \/ ~res_val.success /\ mode = MODE_AND
  \/ res_val.success /\ mode = MODE_OR

\* a slip: an R error of the token is recorded as a failure of the token
EvalToken_ErrorIsFailure(lang, mode, arg_value, path, run) ==
  LET eval_tmp == lang.val
      tried == UNPROTECT(PROTECT(PROTECT(
                 [run EXCEPT !.evald = Append(@, path)])), 1)
  IN LET eval_res ==
           IF eval_tmp = EvalError
           THEN [tpl |-> 0, success |-> FALSE, dat |-> <<lang, R_FALSE>>]
           ELSE IF mode = MODE_STD
                THEN [tpl |-> 0, success |-> VALC_all(eval_tmp) > 0,
                      dat |-> <<lang, eval_tmp>>]
                ELSE LET alike == ALIKEC_alike_internal(eval_tmp, arg_value)
                     IN [tpl |-> 1, success |-> alike.success, dat |-> alike]
     IN [tried EXCEPT !.res_list = VALC_res_add(@, eval_res)]

\* a slip: line 176 takes the template flag for the success of the match
EvalToken_TplFlag(lang, mode, arg_value, path, run) ==
  LET eval_tmp == lang.val
      tried == UNPROTECT(PROTECT(PROTECT(
                 [run EXCEPT !.evald = Append(@, path)])), 1)
  IN IF eval_tmp = EvalError
     THEN VALC_arg_error(tried, "EvaluationFault")
     ELSE LET eval_res ==
                IF mode = MODE_STD
                THEN [tpl |-> 0, success |-> VALC_all(eval_tmp) > 0,
                      dat |-> <<lang, eval_tmp>>]
                ELSE LET alike == ALIKEC_alike_internal(eval_tmp, arg_value)
                     IN [tpl |-> 1, success |-> TRUE, dat |-> alike]
          IN [tried EXCEPT !.res_list = VALC_res_add(@, eval_res)]

\* a slip: line 163 takes the code 0, contains non-TRUE values, for a success
EvalToken_NonNegative(lang, mode, arg_value, path, run) ==
  LET eval_tmp == lang.val
      tried == UNPROTECT(PROTECT(PROTECT(
                 [run EXCEPT !.evald = Append(@, path)])), 1)
  IN IF eval_tmp = EvalError
     THEN VALC_arg_error(tried, "EvaluationFault")
     ELSE LET eval_res ==
                IF mode = MODE_STD
                THEN [tpl |-> 0, success |-> VALC_all(eval_tmp) >= 0,
                      dat |-> <<lang, eval_tmp>>]
                ELSE LET alike == ALIKEC_alike_internal(eval_tmp, arg_value)
                     IN [tpl |-> 1, success |-> alike.success, dat |-> alike]
          IN [tried EXCEPT !.res_list = VALC_res_add(@, eval_res)]

\* a slip: line 178 is reached for a standard token only, the result of a
\* template is not added to the list
EvalToken_TemplateUnrecorded(lang, mode, arg_value, path, run) ==
  LET eval_tmp == lang.val
      tried == UNPROTECT(PROTECT(PROTECT(
                 [run EXCEPT !.evald = Append(@, path)])), 1)
  IN IF eval_tmp = EvalError
     THEN VALC_arg_error(tried, "EvaluationFault")
     ELSE IF mode = MODE_STD
          THEN [tried EXCEPT !.res_list =
                  VALC_res_add(@, [tpl |-> 0, success |-> VALC_all(eval_tmp) > 0,
                                   dat |-> <<lang, eval_tmp>>])]
          ELSE tried

\* lines 136-179: one token.  R_tryEval is called, an R error ends the call
\* before anything is recorded, otherwise exactly one VALC_res is added.
\* Protection stack: PROTECT_WITH_INDEX of eval_dat (line 143), PROTECT of
\* the value of R_tryEval (148), UNPROTECT(1) (152); REPROTECT (174) puts
\* the report of the matcher in the place of eval_dat.
EvalToken(lang, mode, arg_value, path, run) ==
  LET eval_tmp == lang.val
      tried == UNPROTECT(PROTECT(PROTECT(
                 [run EXCEPT !.evald = Append(@, path)])), 1)
  IN IF eval_tmp = EvalError
     THEN VALC_arg_error(tried, "EvaluationFault")
     ELSE LET eval_res ==
                IF mode = MODE_STD
                THEN [tpl |-> 0, success |-> VALC_all(eval_tmp) > 0,
                      dat |-> <<lang, eval_tmp>>]
                ELSE LET alike == ALIKEC_alike_internal(eval_tmp, arg_value)
                     IN [tpl |-> 1, success |-> alike.success, dat |-> alike]
          IN [tried EXCEPT !.res_list = VALC_res_add(@, eval_res)]

RECURSIVE VALC_evaluate_recurse(_, _, _, _)
RECURSIVE EvalArgs(_, _, _, _, _, _, _)

\* line 102 with res_list.idx = 0: list[-1] is read, which C leaves undefined
ReadBelowList == "read of res_list.list[-1]"

\* a slip: a call of && or || that has evaluated both arguments records a
\* result of its own, a copy of the last one
EvalArgs_RecordsCall(lang, mode, arg_value, path, i, parse_count, run) ==
  IF i > Len(lang.kids)
  THEN IF parse_count # 2
       THEN Raise(run, "Internal Error: unexpected language structure for modes 1/2")
       ELSE [run EXCEPT !.res_list =
               VALC_res_add(@, run.res_list.list[run.res_list.idx])]
  ELSE LET after == VALC_evaluate_recurse(lang.kids[i], arg_value,
                                          Append(path, i), run)
       IN IF Failed(after) THEN after
          ELSE IF after.res_list.idx < 1 THEN Raise(after, ReadBelowList)
          ELSE LET res_val == after.res_list.list[after.res_list.idx]
               IN IF ReturnsEarly(mode, res_val) THEN after
                  ELSE EvalArgs(lang, mode, arg_value, path, i + 1,
                                parse_count + 1, after)

\* lines 96-125: the while loop over CDR(lang); i is the position reached
\* and parse_count the number of arguments evaluated without returning.
\* Line 102 reads res_list.list[res_list.idx - 1]; with idx 0 that is a read
\* in front of the array, which the model marks (ReadBelowList).
EvalArgs(lang, mode, arg_value, path, i, parse_count, run) ==
  IF i > Len(lang.kids)
  THEN IF parse_count # 2
       THEN Raise(run, "Internal Error: unexpected language structure for modes 1/2")
       ELSE run
  ELSE LET after == VALC_evaluate_recurse(lang.kids[i], arg_value,
                                          Append(path, i), run)
       IN IF Failed(after) THEN after
          ELSE IF after.res_list.idx < 1 THEN Raise(after, ReadBelowList)
          ELSE LET res_val == after.res_list.list[after.res_list.idx]
               IN IF ReturnsEarly(mode, res_val) THEN after
                  ELSE EvalArgs(lang, mode, arg_value, path, i + 1,
                                parse_count + 1, after)

\* lines 33-185
VALC_evaluate_recurse(lang, arg_value, path, run) ==
  IF ModeCheck(lang) # "" THEN Raise(run, ModeCheck(lang))
  ELSE LET mode == lang.mode
       IN IF mode = MODE_AND \/ mode = MODE_OR
          THEN IF lang.type = "LANGSXP"
               THEN EvalArgs(lang, mode, arg_value, path, 1, 0, run)
               ELSE Raise(run, "Internal Error: in mode c(1, 2), but not a language object")
          ELSE IF mode = MODE_STD \/ mode = MODE_TPL
               THEN EvalToken(lang, mode, arg_value, path, run)
               ELSE Raise(run, "Internal Error: unexpected parse mode")


\* R's type2char for the types the model uses
type2char(type) ==
  CASE type = "LGLSXP" -> <<"l","o","g","i","c","a","l">>
    [] type = "STRSXP" -> <<"c","h","a","r","a","c","t","e","r">>
    [] type = "REALSXP" -> <<"d","o","u","b","l","e">>
    [] type = "INTSXP" -> <<"i","n","t","e","g","e","r">>
    [] OTHER -> <<"N","U","L","L">>

\* settings: set.nchar_max, the longest text the string helpers produce
nchar_max == 10000
Truncate(str, maxlen) ==
  IF Len(str) > maxlen THEN SubSeq(str, 1, maxlen) ELSE str
\* CSR_smprintf4 / CSR_smprintf2: sprintf into a fresh buffer, cut at maxlen
\* (their bodies are not in the sources; the calls of lines 220-222 and
\* 234-245 pass a size, a format with %s conversions and the strings for them)
CSR_smprintf4(maxlen, fmt, a, b, c, d) ==
  Truncate(sprintf(fmt, <<a, b, c, d>>), maxlen)
CSR_smprintf2(maxlen, fmt, a, b) == Truncate(sprintf(fmt, <<a, b>>), maxlen)
CSR_len_as_chr(n) == <<Digit(n)>>

Str_chr_base ==
  <<"c","h","r","%","s"," ","\"","%","s","\"","%","s","%","s">>
Str_range_base == <<" ","[","1",":","%","s","]","%","s">>
Str_dots == <<" ",".",".",".">>

\* part_000 lines 251-253: the bytes asked of R_alloc for the token of a
\* value that is not logical
TokAllocSize(err_tok_tmp) == strlen(err_tok_tmp) + strlen(Str_tok_base)

\* part_000 lines 231-275: the token text for a classification code, or
\* the internal error of an unexpected code
ErrTok(eval_res_c, eval_tmp) ==
  CASE eval_res_c = -6 ->
         LET eval_res_len == Len(eval_tmp.strs)
         IN [err |-> "",
             tok |-> CSR_smprintf4(nchar_max, Str_chr_base,
                       IF eval_res_len > 1
                       THEN CSR_smprintf2(nchar_max, Str_range_base,
                                          CSR_len_as_chr(eval_res_len), <<>>)
                       ELSE <<>>,
                       eval_tmp.strs[1],
                       IF eval_res_len > 1 THEN Str_dots ELSE <<>>,
                       <<>>)]
    [] eval_res_c = -2 ->
         LET err_tok_tmp == type2char(eval_tmp.type)
             err_tok == sprintf(Str_tok_base, <<err_tok_tmp>>)
         IN IF BytesWritten(err_tok) > TokAllocSize(err_tok_tmp)
            THEN [err |-> WriteBeyondBuffer, tok |-> <<>>]
            ELSE [err |-> "", tok |-> err_tok]
    [] eval_res_c = -1 -> [err |-> "", tok |-> Str_FALSE]
    [] eval_res_c = -3 -> [err |-> "", tok |-> Str_NA]
    [] eval_res_c = -4 -> [err |-> "", tok |-> Str_contains_NAs]
    [] eval_res_c = -5 -> [err |-> "", tok |-> Str_zero_length]
    [] eval_res_c = 0 -> [err |-> "", tok |-> Str_contains_non_TRUE]
    [] OTHER -> [err |-> "Internal Error: unexpected user exp eval value",
                 tok |-> <<>>]

\* a slip: the buffer of the message leaves out the length of the format
MsgAllocSize_TextOnly(err_call, err_extra, err_tok) ==
  strlen(err_call) + strlen(err_extra) + strlen(err_tok)

\* part_000 lines 286-304: alloc_size, the sum of the lengths of the call,
\* the format, the extra text and the token
MsgAllocSize(err_call, err_extra, err_tok) ==
  strlen(err_call) + strlen(Str_err_base) + strlen(err_extra)
    + strlen(err_tok)

\* part_000 lines 276-283
ErrExtra(eval_res_c) ==
  IF eval_res_c = 0 THEN Str_is_not_all_TRUE ELSE Str_is_not_TRUE

\* a variant in which the err.msg attribute is the message as it stands
VALC_error_standard_Verbatim(dat, arg_lang) ==
  LET lang == dat[1]
      eval_tmp == dat[2]
      err_attrib == lang.errmsg
  IN IF err_attrib # R_NilValue
     THEN IF err_attrib.type # "STRSXP" \/ Len(err_attrib.strs) # 1
          THEN [err |-> "ConfigurationFault", sxp |-> R_NilValue]
          ELSE [err |-> "", sxp |-> err_attrib]
     ELSE LET err_call == ALIKEC_pad_or_quote(lang)
              eval_res_c == VALC_all(eval_tmp)
              tok == ErrTok(eval_res_c, eval_tmp)
          IN IF tok.err # "" THEN [err |-> tok.err, sxp |-> R_NilValue]
             ELSE [err |-> "",
                   sxp |-> mkString(sprintf(Str_err_base,
                             <<err_call, ErrExtra(eval_res_c), tok.tok>>))]

\* part_000 lines 194-318: the message of a failed standard token, as
\* [err, sxp]: err is the R error that ends the call, if any
VALC_error_standard(dat, arg_lang) ==
  LET lang == dat[1]
      eval_tmp == dat[2]
      err_attrib == lang.errmsg
  IN IF err_attrib # R_NilValue
     THEN IF err_attrib.type # "STRSXP" \/ Len(err_attrib.strs) # 1
          THEN [err |-> "ConfigurationFault", sxp |-> R_NilValue]
          ELSE LET err_call == ALIKEC_pad_or_quote(arg_lang)
                   err_attrib_msg == err_attrib.strs[1]
               IN [err |-> "",
                   sxp |-> mkString(CSR_smprintf4(nchar_max, err_attrib_msg,
                                                  err_call, <<>>, <<>>, <<>>))]
     ELSE LET err_call == ALIKEC_pad_or_quote(lang)
              eval_res_c == VALC_all(eval_tmp)
              tok == ErrTok(eval_res_c, eval_tmp)
              err_extra == ErrExtra(eval_res_c)
              alloc_size == MsgAllocSize(err_call, err_extra, tok.tok)
              err_str == sprintf(Str_err_base, <<err_call, err_extra, tok.tok>>)
          IN IF tok.err # "" THEN [err |-> tok.err, sxp |-> R_NilValue]
             ELSE IF alloc_size > INT_MAX
                  THEN [err |-> "Internal Error: error string longer than INT_MAX",
                        sxp |-> R_NilValue]
                  ELSE IF BytesWritten(err_str) > alloc_size
                       THEN [err |-> WriteBeyondBuffer, sxp |-> R_NilValue]
                       ELSE [err |-> "", sxp |-> mkString(err_str)]

\* a variant that renders the report of the matcher after the source text
\* of the expression being validated
VALC_error_template_Prefixed(res) ==
  LET res_sxp == ALIKEC_res_as_strsxp(res)
  IN [err |-> "", sxp |-> mkString(<<"x", " ">> \o res_sxp.strs[1])]

\* part_000 lines 319-333
VALC_error_template(res) ==
  LET res_sxp == ALIKEC_res_as_strsxp(res)
  IN IF res_sxp.type # "STRSXP"
     THEN [err |-> "Internal Error: result of processing template error must be STRSXP",
           sxp |-> R_NilValue]
     ELSE [err |-> "", sxp |-> res_sxp]

\* part_000 lines 334-343
VALC_error_extract(res, arg_lang) ==
  IF res.tpl = 1 THEN VALC_error_template(res.dat)
  ELSE VALC_error_standard(res.dat, arg_lang)


\* the argument expression being validated (arg_lang), a symbol
ArgLang == [type |-> "SYMSXP", expr |-> <<"x">>]

\* a slip: the call passes only when no failure was recorded
Passes_NoFailure(res_list) ==
  \A k \in 1..res_list.idx : res_list.list[k].success

\* a slip: line 385 takes any recorded success for a pass
Passes_AnySuccess(res_list) ==
  \/ res_list.idx = 0
  \/ \E k \in 1..res_list.idx : res_list.list[k].success

\* part_000 line 385: the call passes when nothing was recorded or the last
\* recorded result is a success
Passes(res_list) ==
  res_list.idx = 0 \/ res_list.list[res_list.idx].success

\* a slip: line 391 counts every recorded result
CountFails_All(res_list, i) == res_list.idx - i

\* part_000 line 391: the number of recorded failures
RECURSIVE CountFails(_, _)
CountFails(res_list, i) ==
  IF i >= res_list.idx THEN 0
  ELSE (IF res_list.list[i + 1].success THEN 0 ELSE 1)
         + CountFails(res_list, i + 1)

\* a variant that leaves out a message already present in res_as_str
RECURSIVE ExtractAll_Unique(_, _, _, _, _)
ExtractAll_Unique(res_list, arg_lang, i, j, res_as_str) ==
  IF i >= res_list.idx THEN [err |-> "", vec |-> res_as_str]
  ELSE LET res == res_list.list[i + 1]
       IN IF res.success
          THEN ExtractAll_Unique(res_list, arg_lang, i + 1, j, res_as_str)
          ELSE LET msg == VALC_error_extract(res, arg_lang)
               IN IF msg.err # "" THEN [err |-> msg.err, vec |-> res_as_str]
                  ELSE IF \E k \in 1..j : res_as_str[k] = msg.sxp
                       THEN ExtractAll_Unique(res_list, arg_lang, i + 1, j,
                                              res_as_str)
                       ELSE ExtractAll_Unique(res_list, arg_lang, i + 1, j + 1,
                              [res_as_str EXCEPT ![j + 1] = msg.sxp])

\* part_000 lines 394-401: slot j of res_as_str receives the message of the
\* i-th recorded result when that result is a failure (i and j count from 0)
RECURSIVE ExtractAll(_, _, _, _, _)
ExtractAll(res_list, arg_lang, i, j, res_as_str) ==
  IF i >= res_list.idx THEN [err |-> "", vec |-> res_as_str]
  ELSE LET res == res_list.list[i + 1]
       IN IF res.success
          THEN ExtractAll(res_list, arg_lang, i + 1, j, res_as_str)
          ELSE LET msg == VALC_error_extract(res, arg_lang)
               IN IF msg.err # "" THEN [err |-> msg.err, vec |-> res_as_str]
                  ELSE ExtractAll(res_list, arg_lang, i + 1, j + 1,
                                  [res_as_str EXCEPT ![j + 1] = msg.sxp])

\* allocVector(VECSXP, n): n slots holding R_NilValue
allocVector(n) == [k \in 1..n |-> R_NilValue]

\* a slip: line 406 unprotects the two entries of VALC_evaluate only
UnprotectCount_Own(res_list) == 2

\* part_000 line 406: the argument of the closing UNPROTECT
UnprotectCount(res_list) == 2 + res_list.idx

\* part_000 lines 354-408: the whole call, as a record
\*   status "returned" with ret the list handed to the caller, or
\*   status "error" with err the R error that ended it (nothing is returned)
\*   status "killed" when the process died (see BadFormatOutcomes)
\*   depth is the number of entries the call has left on the protection
\*   stack: lang_parsed is protected at line 362, res_as_str at line 386 or
\*   392, and line 406 unprotects (VALC_error_template protects and
\*   unprotects its result, lines 322 and 331)
VALC_evaluate(lang, arg_lang, arg_value) ==
  LET init == PROTECT([res_list |-> VALC_res_list_init, evald |-> <<>>,
                       err |-> "", depth |-> 0])
      run == VALC_evaluate_recurse(lang, arg_value, <<>>, init)
      res_list == run.res_list
      aborted(r, msg) ==
        [status |-> IF msg = Killed THEN Killed ELSE "error",
         err |-> msg, ret |-> <<>>,
         res_list |-> r.res_list, evald |-> r.evald, depth |-> r.depth]
      returned(r, res_as_str) ==
        [status |-> "returned", err |-> "", ret |-> res_as_str,
         res_list |-> r.res_list, evald |-> r.evald,
         depth |-> UNPROTECT(r, UnprotectCount(r.res_list)).depth]
  IN IF Failed(run) THEN aborted(run, run.err)
     ELSE IF res_list.idx = INT_MAX
          THEN aborted(run, "Internal Error: cannot have INT_MAX results")
          ELSE IF Passes(res_list)
               THEN returned(PROTECT(run), allocVector(0))
               ELSE LET fails == CountFails(res_list, 0)
                        out == ExtractAll(res_list, arg_lang, 0, 0,
                                          allocVector(fails))
                    IN IF out.err # "" THEN aborted(PROTECT(run), out.err)
                       ELSE returned(PROTECT(run), out.vec)


(***************************************************************************)
(* eval.c: the pairlist evaluator                                          *)
(***************************************************************************)
\* a pairlist with the given elements; allocList(0) is R_NilValue
PairList(elts) ==
  IF elts = <<>> THEN R_NilValue ELSE [type |-> "LISTSXP", list |-> elts]
Elts(sxp) == IF sxp.type = "LISTSXP" THEN sxp.list ELSE <<>>
\* a slip: the new messages are put in front of the collected ones
listAppend_InFront(s, t) == PairList(Elts(t) \o Elts(s))

\* R's listAppend(s, t): t linked after the last cell of s
listAppend(s, t) == PairList(Elts(s) \o Elts(t))

\* eval.c lines 35-55
ModeCheck_evalc(lang) ==
  IF lang.codes = "LISTSXP"
  THEN IF lang.type \notin {"LANGSXP", "LISTSXP"}
       THEN "Logic Error: mismatched language and eval type tracking 1"
       ELSE IF lang.car # "INTSXP"
            THEN IF lang.lcar # "LANGSXP"
                 THEN "Logic error: call should have been evaluated at previous level"
                 ELSE IF lang.car # "LISTSXP" \/ lang.caar # "INTSXP"
                      THEN "Logic error: unexpected act_code structure"
                      ELSE ""
            ELSE ""
  ELSE IF lang.type \in {"LANGSXP", "LISTSXP"}
       THEN "Logic Error: mismatched language and eval type tracking 2"
       ELSE ""

\* VALC_alike: TRUE, or the character(1) rendering of the mismatch
VALC_alike(target, current) ==
  LET res == ALIKEC_alike_internal(target, current)
  IN IF res.success THEN R_TRUE ELSE ALIKEC_res_as_strsxp(res)

\* XLENGTH of a vector of the model
XLENGTH(sxp) ==
  CASE sxp.type = "LGLSXP" -> Len(sxp.lgl)
    [] sxp.type = "STRSXP" -> Len(sxp.strs)
    [] sxp.type = "REALSXP" -> sxp.len
    [] OTHER -> 0

\* eval.c lines 176-178: the bytes asked of R_alloc for the token of a
\* value that is not logical
TokAllocSize_evalc(err_tok_tmp) == strlen(err_tok_tmp) + strlen(Str_tok_base)

\* eval.c lines 172-190
ErrTok_evalc(eval_res_c, eval_tmp) ==
  CASE eval_res_c = -2 ->
         LET err_tok_tmp == type2char(eval_tmp.type)
             err_tok == sprintf(Str_tok_base, <<err_tok_tmp>>)
         IN IF BytesWritten(err_tok) > TokAllocSize_evalc(err_tok_tmp)
            THEN [err |-> WriteBeyondBuffer, tok |-> <<>>]
            ELSE [err |-> "", tok |-> err_tok]
    [] eval_res_c = -1 -> [err |-> "", tok |-> Str_FALSE]
    [] eval_res_c = -3 -> [err |-> "", tok |-> Str_NA]
    [] eval_res_c = -4 -> [err |-> "", tok |-> Str_contains_NAs]
    [] eval_res_c = -5 -> [err |-> "", tok |-> Str_zero_length]
    [] eval_res_c = 0 -> [err |-> "", tok |-> Str_contains_non_TRUE]
    [] OTHER -> [err |-> "Logic Error: unexpected user exp eval value",
                 tok |-> <<>>]

\* eval.c lines 200-203: the bytes asked of R_alloc for the message
MsgAllocSize_evalc(err_call, err_extra, err_tok) ==
  strlen(err_call) + strlen(Str_err_base_evalc) + strlen(err_tok)
    + strlen(err_extra)

\* eval.c lines 138-209: the message of a failed standard token, as [err, sxp]
ErrMsg_evalc(lang, eval_tmp, eval_res_c) ==
  LET err_call == lang.expr
      err_attrib == lang.errmsg
  IN IF err_attrib # R_NilValue
     THEN IF err_attrib.type # "STRSXP" \/ XLENGTH(err_attrib) # 1
          THEN [err |-> "ConfigurationFault", sxp |-> R_NilValue]
          ELSE [err |-> "", sxp |-> err_attrib]
     ELSE LET tok == ErrTok_evalc(eval_res_c, eval_tmp)
              err_extra == IF eval_res_c = 0 THEN Str_is_not_all_TRUE
                           ELSE Str_is_not_TRUE
              err_str == sprintf(Str_err_base_evalc,
                                 <<err_call, err_extra, tok.tok>>)
          IN IF tok.err # "" THEN [err |-> tok.err, sxp |-> R_NilValue]
             ELSE IF BytesWritten(err_str)
                       > MsgAllocSize_evalc(err_call, err_extra, tok.tok)
                  THEN [err |-> WriteBeyondBuffer, sxp |-> R_NilValue]
                  ELSE [err |-> "", sxp |-> mkString(err_str)]

\* eval.c lines 103-217: one token; ret is TRUE or a pairlist of one message
EvalToken_evalc(lang, mode, arg_value, path, run) ==
  LET eval_tmp == lang.val
      tried == [run EXCEPT !.evald = Append(@, path)]
  IN IF eval_tmp = EvalError
     THEN VALC_arg_error(tried, "EvaluationFault")
     ELSE LET eval_res_c == IF mode = MODE_STD THEN VALC_all(eval_tmp) ELSE 0
              eval_res == IF mode = MODE_STD
                          THEN ScalarLogical(IF eval_res_c > 0 THEN "TRUE"
                                             ELSE "FALSE")
                          ELSE VALC_alike(eval_tmp, arg_value)
          IN IF \/ eval_res.type \notin {"LGLSXP", "STRSXP"}
                \/ XLENGTH(eval_res) # 1
                \/ (eval_res.type = "LGLSXP" /\ eval_res.lgl[1] = "NA")
             THEN Raise(tried, "Logic error: token eval must be TRUE, FALSE, or character(1L)")
             ELSE IF eval_res.type # "LGLSXP" \/ eval_res.lgl[1] # "TRUE"
                  THEN IF mode = MODE_STD
                       THEN LET msg == ErrMsg_evalc(lang, eval_tmp, eval_res_c)
                            IN IF msg.err # "" THEN Raise(tried, msg.err)
                               ELSE [tried EXCEPT !.ret = PairList(<<msg.sxp>>)]
                       ELSE [tried EXCEPT !.ret = PairList(<<eval_res>>)]
                  ELSE [tried EXCEPT !.ret = eval_res]

RECURSIVE VALC_evaluate_recurse_evalc(_, _, _, _)
RECURSIVE EvalArgs_evalc(_, _, _, _, _, _, _, _, _)

\* a slip: a call of && goes on to its next argument after a failure too
EvalArgs_evalc_AndGoesOn(lang, mode, arg_value, path, i, parse_count, err_list, eval_res, run) ==
  IF i > Len(lang.kids)
  THEN IF parse_count # 2
       THEN Raise(run, "Logic Error: unexpected language structure for modes 1/2")
       ELSE IF mode = MODE_OR THEN [run EXCEPT !.ret = err_list]
            ELSE [run EXCEPT !.ret = eval_res]
  ELSE LET after == VALC_evaluate_recurse_evalc(lang.kids[i], arg_value,
                                                Append(path, i), run)
       IN IF Failed(after) THEN after
          ELSE IF after.ret.type = "LISTSXP"
               THEN EvalArgs_evalc(lang, mode, arg_value, path, i + 1,
                                   parse_count + 1,
                                   listAppend(err_list, after.ret),
                                   after.ret, after)
               ELSE IF VALC_all(after.ret) > 0
                    THEN IF mode = MODE_OR
                         THEN [after EXCEPT !.ret = ScalarLogical("TRUE")]
                         ELSE EvalArgs_evalc(lang, mode, arg_value, path, i + 1,
                                             parse_count + 1, err_list,
                                             after.ret, after)
                    ELSE Raise(after, "Logic Error: unexpected return value when recursively evaluating parse")

\* a slip: || goes on to its second argument after a success
EvalArgs_evalc_OrGoesOn(lang, mode, arg_value, path, i, parse_count, err_list, eval_res, run) ==
  IF i > Len(lang.kids)
  THEN IF parse_count # 2
       THEN Raise(run, "Logic Error: unexpected language structure for modes 1/2")
       ELSE IF mode = MODE_OR /\ err_list # R_NilValue
            THEN [run EXCEPT !.ret = err_list]
            ELSE [run EXCEPT !.ret = eval_res]
  ELSE LET after == VALC_evaluate_recurse_evalc(lang.kids[i], arg_value,
                                                Append(path, i), run)
       IN IF Failed(after) THEN after
          ELSE IF after.ret.type = "LISTSXP"
               THEN IF mode = MODE_AND THEN after
                    ELSE EvalArgs_evalc(lang, mode, arg_value, path, i + 1,
                                        parse_count + 1,
                                        listAppend(err_list, after.ret),
                                        after.ret, after)
               ELSE EvalArgs_evalc(lang, mode, arg_value, path, i + 1,
                                   parse_count + 1, err_list, after.ret, after)

\* eval.c lines 60-99: the while loop over CDR(lang); err_list collects the
\* messages of the failed arguments of ||, eval_res is the last result
EvalArgs_evalc(lang, mode, arg_value, path, i, parse_count, err_list, eval_res, run) ==
  IF i > Len(lang.kids)
  THEN IF parse_count # 2
       THEN Raise(run, "Logic Error: unexpected language structure for modes 1/2")
       ELSE IF mode = MODE_OR THEN [run EXCEPT !.ret = err_list]
            ELSE [run EXCEPT !.ret = eval_res]
  ELSE LET after == VALC_evaluate_recurse_evalc(lang.kids[i], arg_value,
                                                Append(path, i), run)
       IN IF Failed(after) THEN after
          ELSE IF after.ret.type = "LISTSXP"
               THEN IF mode = MODE_AND THEN after
                    ELSE EvalArgs_evalc(lang, mode, arg_value, path, i + 1,
                                        parse_count + 1,
                                        listAppend(err_list, after.ret),
                                        after.ret, after)
               ELSE IF VALC_all(after.ret) > 0
                    THEN IF mode = MODE_OR
                         THEN [after EXCEPT !.ret = ScalarLogical("TRUE")]
                         ELSE EvalArgs_evalc(lang, mode, arg_value, path, i + 1,
                                             parse_count + 1, err_list,
                                             after.ret, after)
                    ELSE Raise(after, "Logic Error: unexpected return value when recursively evaluating parse")

\* eval.c lines 10-223
VALC_evaluate_recurse_evalc(lang, arg_value, path, run) ==
  IF ModeCheck_evalc(lang) # "" THEN Raise(run, ModeCheck_evalc(lang))
  ELSE LET mode == lang.mode
       IN IF mode = MODE_AND \/ mode = MODE_OR
          THEN IF lang.type = "LANGSXP"
               THEN EvalArgs_evalc(lang, mode, arg_value, path, 1, 0,
                                   R_NilValue, R_NilValue, run)
               ELSE Raise(run, "Logic Error: in mode c(1, 2), but not a language object")
          ELSE IF mode = MODE_STD \/ mode = MODE_TPL
               THEN EvalToken_evalc(lang, mode, arg_value, path, run)
               ELSE Raise(run, "Logic Error: unexpected parse mode")


\* a slip: the comparison never finds two elements identical
R_compute_identical_Never(x, y) == FALSE

\* R_compute_identical(x, y, 16)
R_compute_identical(x, y) == x = y

\* a slip: line 266 unlinks the next cell when it differs
RECURSIVE RemoveDupsLoop_Inverted(_, _, _)
RemoveDupsLoop_Inverted(car, cdr, res_cpy) ==
  IF res_cpy = 0 THEN [err |-> "", cdr |-> cdr]
  ELSE LET res_next == cdr[res_cpy]
           res_val == car[res_cpy]
       IN IF res_val.type # "STRSXP"
          THEN [err |-> "Logic Error: non string value in return pairlist",
                cdr |-> cdr]
          ELSE IF res_next = 0 THEN [err |-> "", cdr |-> cdr]
          ELSE IF ~R_compute_identical(car[res_next], res_val)
               THEN RemoveDupsLoop_Inverted(car,
                      [cdr EXCEPT ![res_cpy] = cdr[res_next]], res_next)
               ELSE RemoveDupsLoop_Inverted(car, cdr, res_next)

\* eval.c lines 257-269: the duplicate-removal loop over the cells of the
\* pairlist.  Cell k holds car[k]; cdr[k] is the next cell, 0 for R_NilValue.
\* SETCDR(res_cpy, CDR(res_next)) unlinks res_next from res_cpy, and the loop
\* then moves on to res_next, the cell it has just unlinked.
RECURSIVE RemoveDupsLoop(_, _, _)
RemoveDupsLoop(car, cdr, res_cpy) ==
  IF res_cpy = 0 THEN [err |-> "", cdr |-> cdr]
  ELSE LET res_next == cdr[res_cpy]
           res_val == car[res_cpy]
       IN IF res_val.type # "STRSXP"
          THEN [err |-> "Logic Error: non string value in return pairlist",
                cdr |-> cdr]
          ELSE IF res_next = 0 THEN [err |-> "", cdr |-> cdr]
          ELSE IF R_compute_identical(car[res_next], res_val)
               THEN RemoveDupsLoop(car, [cdr EXCEPT ![res_cpy] = cdr[res_next]],
                                   res_next)
               ELSE RemoveDupsLoop(car, cdr, res_next)

\* the elements of the pairlist that starts at cell k
RECURSIVE CellsFrom(_, _, _)
CellsFrom(car, cdr, k) ==
  IF k = 0 THEN <<>> ELSE <<car[k]>> \o CellsFrom(car, cdr, cdr[k])

\* eval.c lines 255-270 applied to the elements of a non-empty pairlist, as
\* [err, list]
RemoveDups(elts) ==
  LET n == Len(elts)
      cdr0 == [k \in 1..n |-> IF k = n THEN 0 ELSE k + 1]
      out == RemoveDupsLoop(elts, cdr0, 1)
  IN [err |-> out.err, list |-> CellsFrom(elts, out.cdr, 1)]

\* eval.c lines 236-276: the whole call, as a record
\*   status "returned" with ret the SEXP handed to the caller (res the value
\*   of VALC_evaluate_recurse before duplicates are removed), or
\*   status "error" with err the R error that ended it (nothing is returned)
VALC_evaluate_evalc(lang, arg_value) ==
  LET init == [ret |-> R_NilValue, evald |-> <<>>, err |-> ""]
      run == VALC_evaluate_recurse_evalc(lang, arg_value, <<>>, init)
      res == run.ret
      aborted(msg) ==
        [status |-> "error", err |-> msg, ret |-> R_NilValue, res |-> res,
         evald |-> run.evald]
  IN IF Failed(run) THEN aborted(run.err)
     ELSE IF res.type = "LGLSXP"
          THEN [status |-> "returned", err |-> "", ret |-> res, res |-> res,
                evald |-> run.evald]
          ELSE IF res.type = "LISTSXP"
               THEN LET out == RemoveDups(res.list)
                    IN IF out.err # "" THEN aborted(out.err)
                       ELSE [status |-> "returned", err |-> "",
                             ret |-> PairList(out.list), res |-> res,
                             evald |-> run.evald]
               ELSE aborted("Logic Error: unexpected evaluating return type")

(***************************************************************************)
(* The state machine: one vetting expression and one value, validated once *)
(* by each evaluator.                                                      *)
(***************************************************************************)
\* lang        the parsed vetting expression handed to VALC_evaluate
\* arg_value   the value being validated
\* trace_call  the call of VALC_evaluate of part_000: idle, returned or error
\* list_call   the call of VALC_evaluate of eval.c: idle, returned or error
VARIABLES lang, arg_value, trace_call, list_call

vars == <<lang, arg_value, chr_code, bad_format, trace_call, list_call>>

Idle == [status |-> "idle"]

\* no token of AllExprs yields a character vector: chr_code is never read;
\* every node is well shaped: bad_format is never read
Init ==
  /\ lang \in AllExprs
  /\ arg_value \in ArgValues
  /\ chr_code = -2
  /\ bad_format = "raised"
  /\ trace_call = Idle
  /\ list_call = Idle

\* a call of VALC_evaluate of part_000
EvaluateTrace ==
  /\ trace_call.status = "idle"
  /\ trace_call' = VALC_evaluate(lang, ArgLang, arg_value)
  /\ UNCHANGED <<lang, arg_value, chr_code, bad_format, list_call>>

\* a call of VALC_evaluate of eval.c
EvaluateList ==
  /\ list_call.status = "idle"
  /\ list_call' = VALC_evaluate_evalc(lang, arg_value)
  /\ UNCHANGED <<lang, arg_value, chr_code, bad_format, trace_call>>

Next == EvaluateTrace \/ EvaluateList

Spec == Init /\ [][Next]_vars

(***************************************************************************)
(* Calls of && and || that do not have two arguments.  VALC_parse does not *)
(* produce them; both evaluators count the arguments of a call they have   *)
(* looped over (parse_count, part_000 lines 92-121, eval.c lines 60-94).   *)
(***************************************************************************)
\* largest number of arguments of a call
MaxArity == 3

TokenSeqs(n) == [1..n -> Tokens]

\* a call of one argument, or of three and more, all of them tokens
ArityCalls ==
  { Call(m, kids) :
      m \in {MODE_AND, MODE_OR},
      kids \in UNION { TokenSeqs(n) : n \in (1..MaxArity) \ {2} } }

\* such a call, alone or as an argument of a call of two arguments
ArityExprs ==
  ArityCalls
    \cup { Call(m, <<t, c>>) :
             m \in {MODE_AND, MODE_OR}, t \in Tokens, c \in ArityCalls }
    \cup { Call(m, <<c, t>>) :
             m \in {MODE_AND, MODE_OR}, t \in Tokens, c \in ArityCalls }

InitArity ==
  /\ lang \in ArityExprs
  /\ arg_value \in ArgValues
  /\ chr_code = -2
  /\ bad_format = "raised"
  /\ trace_call = Idle
  /\ list_call = Idle

SpecArity == InitArity /\ [][Next]_vars

(***************************************************************************)
(* Expressions over tokens of every classification, with and without an    *)
(* err.msg attribute: the rendering of messages.                           *)
(***************************************************************************)
\* largest number of tokens of these expressions
MaxMsgLeaves == 2

Logical(v) == [type |-> "LGLSXP", lgl |-> v]
Character(v) == [type |-> "STRSXP", strs |-> v]
\* a token whose err.msg attribute is set
WithErrMsg(tok, err_attrib) == [tok EXCEPT !.errmsg = err_attrib]

Expr_all_x_gt_0 == <<"a","l","l","(","x"," ",">"," ","0",")">>
Expr_x_eq_y == <<"x"," ","=","="," ","y">>
Expr_x_ge_y == <<"x"," ",">","="," ","y">>
Expr_x_0 == <<"x","[","0","]">>
Expr_length_x == <<"l","e","n","g","t","h","(","x",")">>
Expr_names_x == <<"n","a","m","e","s","(","x",")">>
Str_must_be_positive ==
  <<"m","u","s","t"," ","b","e"," ","p","o","s","i","t","i","v","e">>
Str_s_must_be_positive == <<"%","s">> \o Str_must_be_positive
Str_a == <<"a">>

\* err.msg attributes: two of exactly one string, the second with a %s in
\* it, one of two strings and one that is not a character vector
ErrMsgs ==
  { Character(<<Str_must_be_positive>>),
    Character(<<Str_s_must_be_positive>>),
    Character(<<Str_must_be_positive, Str_a>>),
    Numeric(1) }

\* one token for each code of VALC_all, a token whose value is a character
\* vector, a template, and a failing token with each of the attributes
MsgTokens ==
  { Token(MODE_STD, Expr_is_num, R_TRUE),
    Token(MODE_STD, Expr_x_gt_0, R_FALSE),
    Token(MODE_STD, Expr_all_x_gt_0, Logical(<<"TRUE", "FALSE">>)),
    Token(MODE_STD, Expr_x_eq_y, Logical(<<"NA">>)),
    Token(MODE_STD, Expr_x_ge_y, Logical(<<"TRUE", "NA">>)),
    Token(MODE_STD, Expr_x_0, Logical(<<>>)),
    Token(MODE_STD, Expr_length_x, Numeric(1)),
    Token(MODE_STD, Expr_names_x, Character(<<Str_a>>)),
    Token(MODE_TPL, Expr_numeric_2, Numeric(2)) }
    \cup { WithErrMsg(Token(MODE_STD, Expr_x_gt_0, R_FALSE), m) : m \in ErrMsgs }

RECURSIVE MsgExprs(_)
MsgExprs(n) ==
  IF n = 1 THEN MsgTokens
  ELSE UNION { { Call(m, <<l, r>>) :
                   m \in {MODE_AND, MODE_OR},
                   l \in MsgExprs(i), r \in MsgExprs(n - i) } :
               i \in 1..(n - 1) }

InitMsg ==
  /\ lang \in UNION { MsgExprs(n) : n \in 1..MaxMsgLeaves }
  /\ arg_value \in ArgValues
  /\ chr_code \in ChrCodes
  /\ bad_format = "raised"
  /\ trace_call = Idle
  /\ list_call = Idle

SpecMsg == InitMsg /\ [][Next]_vars


(***************************************************************************)
(* Vocabulary of the properties                                            *)
(***************************************************************************)
IsPrefix(p, q) == Len(p) <= Len(q) /\ SubSeq(q, 1, Len(p)) = p

\* the paths of all subexpressions
RECURSIVE Paths(_)
Paths(node) ==
  {<<>>} \cup UNION { { <<i>> \o q : q \in Paths(node.kids[i]) } :
                      i \in 1..Len(node.kids) }

SetMax(S) == CHOOSE x \in S : \A y \in S : y <= x

\* the positions, in the order of evaluation, of the tokens evaluated inside
\* the subexpression at path p
Under(evald, p) == { k \in 1..Len(evald) : IsPrefix(p, evald[k]) }
Entered(call, p) == Under(call.evald, p) # {}

\* part_000: what line 102 reads when the recursive call on the
\* subexpression at p has returned, the success of the last recorded result
OutcomeAt(call, p) ==
  call.res_list.list[SetMax(Under(call.evald, p))].success

\* the value of an expression by the truth tables of && and ||, from what its
\* tokens are worth; e is the worth given to a token whose evaluation raises
\* an error
TokenHolds(node, value, e) ==
  IF node.val = EvalError THEN e
  ELSE IF node.mode = MODE_STD THEN node.val = R_TRUE
       ELSE node.val = value
RECURSIVE Denotes(_, _, _)
Denotes(node, value, e) ==
  IF IsToken(node) THEN TokenHolds(node, value, e)
  ELSE IF node.mode = MODE_AND
       THEN \A i \in 1..Len(node.kids) : Denotes(node.kids[i], value, e)
       ELSE \E i \in 1..Len(node.kids) : Denotes(node.kids[i], value, e)

\* eval.c: the recursive evaluation of an expression on its own
RecurseList(node) ==
  VALC_evaluate_recurse_evalc(node, arg_value, <<>>,
    [ret |-> R_NilValue, evald |-> <<>>, err |-> ""])
\* part_000: the recursive evaluation of an expression on its own
RecurseTrace(node) ==
  VALC_evaluate_recurse(node, arg_value, <<>>,
    [res_list |-> VALC_res_list_init, evald |-> <<>>, err |-> "", depth |-> 0])
SucceedsList(run) == ~Failed(run) /\ run.ret = R_TRUE
LastRes(res_list) == res_list.list[res_list.idx]
\* the evaluation log of a subexpression seen from its parent
Below(i, evald) == [k \in 1..Len(evald) |-> <<i>> \o evald[k]]

TraceReturned == trace_call.status = "returned"
ListReturned == list_call.status = "returned"

(***************************************************************************)
(* Properties                                                              *)
(***************************************************************************)
\* C1: an && call succeeds exactly when its first argument succeeds and its
\* second argument is then evaluated and succeeds; when the first argument
\* fails no token of the second is evaluated and nothing is recorded for it.
\* part_000: for every && call evaluated during the call, on the recorded
\* results.  eval.c: for the root against the evaluation of each argument on
\* its own, and for every && call evaluated during the call as to whether
\* its second argument was entered.
C1_AndShortCircuit ==
  /\ TraceReturned =>
       \A p \in Paths(lang) :
         (NodeAt(lang, p).mode = MODE_AND /\ Entered(trace_call, p)) =>
           LET l == p \o <<1>>
               r == p \o <<2>>
           IN /\ Entered(trace_call, l)
              /\ OutcomeAt(trace_call, p) <=>
                   (OutcomeAt(trace_call, l) /\ Entered(trace_call, r)
                      /\ OutcomeAt(trace_call, r))
              /\ ~OutcomeAt(trace_call, l) =>
                   /\ ~Entered(trace_call, r)
                   /\ Under(trace_call.evald, p) = Under(trace_call.evald, l)
  /\ ListReturned =>
       /\ \A p \in Paths(lang) :
            (NodeAt(lang, p).mode = MODE_AND /\ Entered(list_call, p)) =>
              (SucceedsList(RecurseList(NodeAt(lang, p \o <<1>>)))
                 <=> Entered(list_call, p \o <<2>>))
       /\ lang.mode = MODE_AND =>
            LET l == RecurseList(lang.kids[1])
                r == RecurseList(lang.kids[2])
            IN /\ (list_call.res = R_TRUE) <=>
                    (SucceedsList(l) /\ SucceedsList(r))
               /\ ~SucceedsList(l) =>
                    /\ list_call.evald = Below(1, l.evald)
                    /\ list_call.res = l.ret

\* an && call whose first argument failed, in both evaluators
C1_Witness ==
  /\ TraceReturned /\ ListReturned
  /\ lang.mode = MODE_AND
  /\ ~OutcomeAt(trace_call, <<1>>)
  /\ ~Entered(trace_call, <<2>>)
  /\ list_call.res.type = "LISTSXP"
  /\ ~Entered(list_call, <<2>>)


\* C2: an || call succeeds exactly when its first argument succeeds or its
\* second argument is then evaluated and succeeds; when the first argument
\* succeeds no token of the second is evaluated; when the first argument
\* fails the second is evaluated and the outcome of the call is the outcome
\* of the second argument (part_000: the very result record the second
\* argument leaves last; eval.c: TRUE when the second argument returns TRUE,
\* a list of messages when it returns one).
C2_OrShortCircuit ==
  /\ TraceReturned =>
       /\ \A p \in Paths(lang) :
            (NodeAt(lang, p).mode = MODE_OR /\ Entered(trace_call, p)) =>
              LET l == p \o <<1>>
                  r == p \o <<2>>
              IN /\ Entered(trace_call, l)
                 /\ OutcomeAt(trace_call, p) <=>
                      (\/ OutcomeAt(trace_call, l)
                       \/ Entered(trace_call, r) /\ OutcomeAt(trace_call, r))
                 /\ OutcomeAt(trace_call, l) =>
                      /\ ~Entered(trace_call, r)
                      /\ Under(trace_call.evald, p) = Under(trace_call.evald, l)
                 /\ ~OutcomeAt(trace_call, l) =>
                      /\ Entered(trace_call, r)
                      /\ SetMax(Under(trace_call.evald, p))
                           = SetMax(Under(trace_call.evald, r))
       /\ (lang.mode = MODE_OR /\ ~OutcomeAt(trace_call, <<1>>)) =>
            LastRes(trace_call.res_list)
              = LastRes(RecurseTrace(lang.kids[2]).res_list)
  /\ ListReturned =>
       /\ \A p \in Paths(lang) :
            (NodeAt(lang, p).mode = MODE_OR /\ Entered(list_call, p)) =>
              (SucceedsList(RecurseList(NodeAt(lang, p \o <<1>>)))
                 <=> ~Entered(list_call, p \o <<2>>))
       /\ lang.mode = MODE_OR =>
            LET l == RecurseList(lang.kids[1])
                r == RecurseList(lang.kids[2])
            IN /\ (list_call.res = R_TRUE) <=>
                    (SucceedsList(l) \/ SucceedsList(r))
               /\ SucceedsList(l) =>
                    /\ list_call.evald = Below(1, l.evald)
                    /\ list_call.res = R_TRUE
               /\ ~SucceedsList(l) =>
                    /\ ~Failed(r)
                    /\ list_call.res.type = r.ret.type
                    /\ list_call.evald = Below(1, l.evald) \o Below(2, r.evald)

\* an || call whose first argument failed and whose second was evaluated, and
\* one nested || call that stopped at its first argument
C2_Witness ==
  /\ TraceReturned /\ ListReturned
  /\ lang.mode = MODE_OR
  /\ ~OutcomeAt(trace_call, <<1>>)
  /\ Entered(trace_call, <<2>>) /\ Entered(list_call, <<2>>)
  /\ NodeAt(lang, <<2>>).mode = MODE_OR
  /\ OutcomeAt(trace_call, <<2, 1>>)
  /\ ~Entered(trace_call, <<2, 2>>) /\ ~Entered(list_call, <<2, 2>>)

\* C3: when the recursive evaluation of part_000 returns, something has been
\* recorded and the success flag of the last recorded result is the value
\* of the whole expression by the truth tables of && and ||; so the test of
\* line 385 passes exactly when the expression is true.
C3_LastEntryIsRootValue ==
  TraceReturned =>
    \A e \in BOOLEAN :
      /\ trace_call.res_list.idx >= 1
      /\ LastRes(trace_call.res_list).success = Denotes(lang, arg_value, e)
      /\ Passes(trace_call.res_list) = Denotes(lang, arg_value, e)

\* a returned call that recorded a failure first and a success last
C3_Witness ==
  /\ TraceReturned
  /\ ~IsToken(lang)
  /\ trace_call.res_list.idx >= 2
  /\ ~trace_call.res_list.list[1].success
  /\ LastRes(trace_call.res_list).success

\* C4: when the expression is true the call returns the pass result without
\* any diagnostic, whatever failures were met on the way: the empty list in
\* part_000, TRUE in eval.c.
C4_PassIsEmpty ==
  /\ (TraceReturned /\ \E e \in BOOLEAN : Denotes(lang, arg_value, e)) =>
       trace_call.ret = <<>>
  /\ (ListReturned /\ \E e \in BOOLEAN : Denotes(lang, arg_value, e)) =>
       list_call.ret = R_TRUE

\* a passing call after two recorded failures
C4_Witness ==
  /\ TraceReturned /\ ListReturned
  /\ trace_call.res_list.idx = 3
  /\ ~trace_call.res_list.list[1].success
  /\ ~trace_call.res_list.list[2].success
  /\ trace_call.ret = <<>>
  /\ list_call.ret = R_TRUE

\* C5: when a call of part_000 fails, the returned list holds the message of
\* each recorded failure, in the order of recording, and nothing else.
C5_OnePerFailure ==
  (TraceReturned /\ ~LastRes(trace_call.res_list).success) =>
    LET failed == SelectSeq(trace_call.res_list.list, LAMBDA r : ~r.success)
    IN /\ Len(trace_call.ret) = Len(failed)
       /\ \A j \in 1..Len(failed) :
            trace_call.ret[j] = VALC_error_extract(failed[j], ArgLang).sxp

\* a failing call that recorded a failure, then a success, then a failure
C5_Witness ==
  /\ TraceReturned
  /\ trace_call.res_list.idx = 3
  /\ ~trace_call.res_list.list[1].success
  /\ trace_call.res_list.list[2].success
  /\ ~trace_call.res_list.list[3].success
  /\ Len(trace_call.ret) = 2


\* the elements of s with every repetition of an earlier element left out
RECURSIVE FirstOccurrences(_)
FirstOccurrences(s) ==
  IF s = <<>> THEN <<>>
  ELSE LET front == FirstOccurrences(SubSeq(s, 1, Len(s) - 1))
           last == s[Len(s)]
       IN IF \E k \in 1..Len(front) : front[k] = last THEN front
          ELSE Append(front, last)
\* s can be obtained from t by leaving elements out
RECURSIVE IsSubseq(_, _)
IsSubseq(s, t) ==
  IF s = <<>> THEN TRUE
  ELSE IF t = <<>> THEN FALSE
  ELSE IF Head(s) = Head(t) THEN IsSubseq(Tail(s), Tail(t))
       ELSE IsSubseq(s, Tail(t))
NoRepetition(s) ==
  \A i \in 1..Len(s) : \A j \in 1..Len(s) : i # j => s[i] # s[j]
Occurrences(s, x) == Cardinality({ k \in 1..Len(s) : s[k] = x })

\* C6: the list eval.c returns after its duplicate-removal pass holds no two
\* identical diagnostics.  The evaluator does not have this property: the
\* pass compares neighbours only and steps onto the cell it has unlinked.
C6_NoDuplicateLeft ==
  (ListReturned /\ list_call.ret.type = "LISTSXP") =>
    NoRepetition(list_call.ret.list)

\* C7: the duplicate-removal pass of eval.c returns a subsequence of the
\* list it is given in which every distinct diagnostic is still present, the
\* distinct diagnostics keeping the order of their first occurrences.
C7_KeepsFirstOccurrences ==
  (ListReturned /\ list_call.res.type = "LISTSXP") =>
    /\ list_call.ret.type = "LISTSXP"
    /\ IsSubseq(list_call.ret.list, list_call.res.list)
    /\ FirstOccurrences(list_call.ret.list)
         = FirstOccurrences(list_call.res.list)

\* three diagnostics, the second a copy of the first, returned as two
C7_Witness ==
  /\ ListReturned
  /\ list_call.res.type = "LISTSXP"
  /\ Len(list_call.res.list) = 3
  /\ list_call.res.list[1] = list_call.res.list[2]
  /\ list_call.res.list[2] # list_call.res.list[3]
  /\ Len(list_call.ret.list) = 2

\* C8: for an || call of two tokens that both fail with the same diagnostic,
\* eval.c returns a list holding that diagnostic once.
C8_OrOfTwinsGivesOne ==
  (/\ ListReturned
   /\ lang.mode = MODE_OR
   /\ IsToken(lang.kids[1]) /\ IsToken(lang.kids[2])
   /\ RecurseList(lang.kids[1]).ret.type = "LISTSXP"
   /\ RecurseList(lang.kids[2]).ret = RecurseList(lang.kids[1]).ret) =>
    /\ list_call.ret.type = "LISTSXP"
    /\ list_call.ret.list = RecurseList(lang.kids[1]).ret.list
    /\ Len(list_call.ret.list) = 1

\* an || call of two failing tokens with the same diagnostic has returned
C8_Witness ==
  /\ ListReturned
  /\ lang.mode = MODE_OR
  /\ IsToken(lang.kids[1]) /\ IsToken(lang.kids[2])
  /\ list_call.res.type = "LISTSXP"
  /\ Len(list_call.res.list) = 2
  /\ list_call.res.list[1] = list_call.res.list[2]

FaultMet(call) ==
  \E k \in 1..Len(call.evald) : NodeAt(lang, call.evald[k]).val = EvalError
FaultIsLast(call) ==
  /\ NodeAt(lang, call.evald[Len(call.evald)]).val = EvalError
  /\ \A k \in 1..(Len(call.evald) - 1) :
       NodeAt(lang, call.evald[k]).val # EvalError

\* C10: once the evaluation of a token raises an R error the call is over:
\* it ends in an error, that token is the last one evaluated, nothing is
\* recorded for it, and no list, neither the pass result nor diagnostics, is
\* returned, whatever was recorded before.
C10_FaultAborts ==
  /\ (trace_call.status # "idle" /\ FaultMet(trace_call)) =>
       /\ trace_call.status = "error"
       /\ trace_call.err = "EvaluationFault"
       /\ FaultIsLast(trace_call)
       /\ trace_call.res_list.idx = Len(trace_call.evald) - 1
       /\ Len(trace_call.res_list.list) = Len(trace_call.evald) - 1
  /\ (list_call.status # "idle" /\ FaultMet(list_call)) =>
       /\ list_call.status = "error"
       /\ list_call.err = "EvaluationFault"
       /\ FaultIsLast(list_call)
       /\ list_call.ret = R_NilValue

\* both evaluators have met an R error after a token had failed
C10_Witness ==
  /\ trace_call.status = "error" /\ list_call.status = "error"
  /\ FaultMet(trace_call) /\ FaultMet(list_call)
  /\ trace_call.res_list.idx >= 1
  /\ ~trace_call.res_list.list[1].success
  /\ Len(list_call.evald) >= 2

\* a call of && or || that does not have two arguments
WrongArity(node) == ~IsToken(node) /\ Len(node.kids) # 2
Str_arity_fault == "Internal Error: unexpected language structure for modes 1/2"
Str_arity_fault_evalc == "Logic Error: unexpected language structure for modes 1/2"

\* C11: whenever a call of && or || that does not have two arguments is
\* evaluated, the evaluation ends in an R error, the internal error of
\* lines 114-121 of part_000 and 93-94 of eval.c unless a token raised an
\* R error first, and nothing is returned.  Neither evaluator has this
\* property: the count is tested only when the loop ran over every argument,
\* and a call that returns from inside the loop is never counted.
C11_ArityAborts ==
  /\ trace_call.status # "idle" =>
       \A p \in Paths(lang) :
         (WrongArity(NodeAt(lang, p)) /\ Entered(trace_call, p)) =>
           /\ trace_call.status = "error"
           /\ ~FaultMet(trace_call) => trace_call.err = Str_arity_fault
  /\ list_call.status # "idle" =>
       \A p \in Paths(lang) :
         (WrongArity(NodeAt(lang, p)) /\ Entered(list_call, p)) =>
           /\ list_call.status = "error"
           /\ ~FaultMet(list_call) => list_call.err = Str_arity_fault_evalc

\* an err.msg attribute that is set and is not exactly one string
Malformed(err_attrib) ==
  /\ err_attrib # R_NilValue
  /\ \/ err_attrib.type # "STRSXP"
     \/ Len(err_attrib.strs) # 1
\* an err.msg attribute of exactly one string
WellFormed(err_attrib) ==
  /\ err_attrib.type = "STRSXP"
  /\ Len(err_attrib.strs) = 1
\* a standard token whose value VALC_all does not class as all TRUE
FailsStd(node) ==
  /\ node.mode = MODE_STD
  /\ node.val # EvalError
  /\ VALC_all(node.val) <= 0

\* C12: in part_000, once a standard token with a malformed err.msg attribute
\* has been evaluated and has failed, the call ends in the error of lines
\* 209-212 and that token is the last one evaluated.  The evaluator does not
\* have this property: the attribute is read by VALC_error_standard, which
\* VALC_evaluate calls after the recursion has returned and only when the
\* call fails.
C12_MalformedOverrideAbortsAtOnce ==
  trace_call.status # "idle" =>
    \A k \in 1..Len(trace_call.evald) :
      LET node == NodeAt(lang, trace_call.evald[k])
      IN (FailsStd(node) /\ Malformed(node.errmsg)) =>
           /\ trace_call.status = "error"
           /\ trace_call.err = "ConfigurationFault"
           /\ k = Len(trace_call.evald)

\* part_000: the recorded failures of a call, in the order of recording; the
\* j-th of them is rendered into slot j of the returned list
FailedEntries(call) == SelectSeq(call.res_list.list, LAMBDA r : ~r.success)
TraceFailed == TraceReturned /\ ~LastRes(trace_call.res_list).success
\* the text holds a %s conversion
HasPlaceholder(text) ==
  \E i \in 1..(Len(text) - 1) : text[i] = "%" /\ text[i + 1] = "s"
\* a recorded failure of a standard token with a well-formed err.msg attribute
Overridden(res) == res.tpl = 0 /\ WellFormed(res.dat[1].errmsg)

Classify(val) == IF val.type # "LGLSXP" THEN -2 ELSE VALC_all(val)
Str_wrong_type(type) ==
  <<"i","s"," ","\"">> \o type2char(type)
    \o <<"\""," ","i","n","s","t","e","a","d"," ","o","f"," ","a"," ","\"",
         "l","o","g","i","c","a","l","\"">>
TableToken(val) ==
  CASE Classify(val) = -2 -> Str_wrong_type(val.type)
    [] Classify(val) = -1 -> Str_FALSE
    [] Classify(val) = -3 -> Str_NA
    [] Classify(val) = -4 -> Str_contains_NAs
    [] Classify(val) = -5 -> Str_zero_length
    [] Classify(val) = 0 -> Str_contains_non_TRUE
TableExtra(val) ==
  IF Classify(val) = 0 THEN Str_is_not_all_TRUE ELSE Str_is_not_TRUE
\* a recorded failure of a standard token without err.msg attribute
Synthesized(res) == res.tpl = 0 /\ res.dat[1].errmsg = R_NilValue

\* C14: the message part_000 builds for a failed standard token without
\* err.msg attribute ends with the extra phrase and, in parentheses, the
\* token of the table for the classification of the value; for a value that
\* is not logical that token names its type.  The evaluator has a seventh
\* token, for the code -6 (lines 232-247), which quotes a character value.
C14_TokenOfTable ==
  TraceFailed =>
    \A j \in 1..Len(FailedEntries(trace_call)) :
      LET res == FailedEntries(trace_call)[j]
      IN Synthesized(res) =>
           trace_call.ret[j]
             = mkString(ALIKEC_pad_or_quote(res.dat[1]) \o TableExtra(res.dat[2])
                          \o <<" ", "(">> \o TableToken(res.dat[2]) \o <<")">>)

\* the message of the specification for a failed standard token: the source
\* text, a space, the extra phrase, a space, the token in parentheses
Exact(node) ==
  node.expr \o <<" ">> \o TableExtra(node.val) \o <<" ", "(">>
    \o TableToken(node.val) \o <<")">>
\* a standard token with a logical value and without err.msg attribute
PlainToken(node) ==
  /\ node.mode = MODE_STD
  /\ node.val # EvalError
  /\ node.val.type = "LGLSXP"
  /\ node.errmsg = R_NilValue
\* an expression of such tokens only
PlainExpr(node) ==
  \A p \in Paths(node) : IsToken(NodeAt(node, p)) => PlainToken(NodeAt(node, p))
\* the tokens a call evaluated
Evaluated(call) == { NodeAt(lang, call.evald[k]) : k \in 1..Len(call.evald) }

\* C15: for an expression of standard tokens with logical values and without
\* err.msg attributes, every message returned is, character for character,
\* the source text of a token that failed, a space, the extra phrase, a space
\* and the token in parentheses, in both evaluators.  eval.c does not have
\* this property: its format (line 199) sets the source text between
\* backticks.
C15_ExactMessage ==
  PlainExpr(lang) =>
    /\ TraceFailed =>
         \A j \in 1..Len(FailedEntries(trace_call)) :
           trace_call.ret[j] = mkString(Exact(FailedEntries(trace_call)[j].dat[1]))
    /\ (ListReturned /\ list_call.ret.type = "LISTSXP") =>
         \A k \in 1..Len(list_call.ret.list) :
           \E node \in Evaluated(list_call) :
             /\ FailsStd(node)
             /\ list_call.ret.list[k] = mkString(Exact(node))

\* a logical vector with at least one element, all of them TRUE
PureTrue(val) ==
  /\ val.type = "LGLSXP"
  /\ Len(val.lgl) >= 1
  /\ \A i \in 1..Len(val.lgl) : val.lgl[i] = "TRUE"
\* the number of tokens a call evaluated without an R error
EvaluatedWithoutError(call) ==
  Cardinality({ k \in 1..Len(call.evald) :
                  NodeAt(lang, call.evald[k]).val # EvalError })

\* C16: in part_000 every standard token that was evaluated without an R
\* error has one recorded result, at the position of its evaluation: the
\* result holds the expression and the value of the token, is flagged as not
\* from a template, and is a success exactly when the value is all TRUE,
\* that is when the code of VALC_all is positive.  Successes and failures are
\* recorded alike, and nothing else is recorded.
C16_StdTokenRecorded ==
  trace_call.status # "idle" =>
    /\ Len(trace_call.res_list.list) = EvaluatedWithoutError(trace_call)
    /\ trace_call.res_list.idx = Len(trace_call.res_list.list)
    /\ \A k \in 1..Len(trace_call.evald) :
         LET node == NodeAt(lang, trace_call.evald[k])
         IN (node.mode = MODE_STD /\ node.val # EvalError) =>
              /\ k <= trace_call.res_list.idx
              /\ trace_call.res_list.list[k]
                   = [tpl |-> 0, success |-> PureTrue(node.val),
                      dat |-> <<node, node.val>>]
              /\ trace_call.res_list.list[k].success
                   <=> VALC_all(node.val) > 0

\* a call that recorded a success of a standard token and then the failure
\* of one whose value holds TRUE and FALSE
C16_Witness ==
  /\ TraceReturned
  /\ trace_call.res_list.idx = 2
  /\ trace_call.res_list.list[1].tpl = 0
  /\ trace_call.res_list.list[1].success
  /\ trace_call.res_list.list[2].tpl = 0
  /\ ~trace_call.res_list.list[2].success
  /\ trace_call.res_list.list[2].dat[2] = Logical(<<"TRUE", "FALSE">>)

\* C17: in part_000 every template token that was evaluated has one recorded
\* result, at the position of its evaluation: the result is flagged as from
\* a template, holds what ALIKEC_alike_internal returned for the value of the
\* template and the value being validated, unchanged, and is a success
\* exactly when that result is one.  When the call fails, the message
\* returned for a failed template token is the rendering that
\* ALIKEC_res_as_strsxp gives of that result, unchanged.
C17_TemplateForwarded ==
  /\ trace_call.status # "idle" =>
       \A k \in 1..Len(trace_call.evald) :
         LET node == NodeAt(lang, trace_call.evald[k])
             match == ALIKEC_alike_internal(node.val, arg_value)
         IN (node.mode = MODE_TPL /\ node.val # EvalError) =>
              /\ k <= trace_call.res_list.idx
              /\ trace_call.res_list.list[k]
                   = [tpl |-> 1, success |-> match.success, dat |-> match]
  /\ TraceFailed =>
       \A j \in 1..Len(FailedEntries(trace_call)) :
         LET res == FailedEntries(trace_call)[j]
         IN res.tpl = 1 => trace_call.ret[j] = ALIKEC_res_as_strsxp(res.dat)

\* a failed call whose only message is that of a template token, the value
\* being validated having one element where the template has two
C17_Witness ==
  /\ TraceFailed
  /\ arg_value = Numeric(1)
  /\ Len(trace_call.ret) = 1
  /\ LastRes(trace_call.res_list).tpl = 1
  /\ LastRes(trace_call.res_list).dat.wrap.target = Numeric(2)
  /\ trace_call.ret[1] = ALIKEC_res_as_strsxp(LastRes(trace_call.res_list).dat)

\* path p comes before path q in the left-to-right, depth-first order of the
\* tokens of an expression
PathBefore(p, q) ==
  \E i \in 1..Len(p) :
    /\ i <= Len(q)
    /\ SubSeq(p, 1, i - 1) = SubSeq(q, 1, i - 1)
    /\ p[i] < q[i]
\* the result part_000 records for a token (lines 160-177)
EntryOf(node, value) ==
  IF node.mode = MODE_STD
  THEN [tpl |-> 0, success |-> PureTrue(node.val), dat |-> <<node, node.val>>]
  ELSE LET match == ALIKEC_alike_internal(node.val, value)
       IN [tpl |-> 1, success |-> match.success, dat |-> match]

\* C18: when a call of part_000 returns, the recorded results are, one for
\* one and in the same order, the results of the tokens that were evaluated;
\* the tokens were evaluated in the left-to-right, depth-first order of the
\* expression, none of them twice; the calls of && and || recorded nothing.
C18_TraceIsLeavesInOrder ==
  TraceReturned =>
    /\ Len(trace_call.res_list.list) = Len(trace_call.evald)
    /\ trace_call.res_list.idx = Len(trace_call.evald)
    /\ \A k \in 1..Len(trace_call.evald) :
         /\ IsToken(NodeAt(lang, trace_call.evald[k]))
         /\ k <= Len(trace_call.res_list.list) =>
              trace_call.res_list.list[k]
                = EntryOf(NodeAt(lang, trace_call.evald[k]), arg_value)
    /\ \A k \in 1..Len(trace_call.evald) :
         \A m \in (k + 1)..Len(trace_call.evald) :
           PathBefore(trace_call.evald[k], trace_call.evald[m])

\* a returned call that evaluated both arguments of a nested call and then
\* the second argument of the root
C18_Witness ==
  /\ TraceReturned
  /\ trace_call.evald = << <<1, 1>>, <<1, 2>>, <<2>> >>
  /\ trace_call.res_list.idx = 3

\* every call of the expression is a call of &&
AllAnd(node) ==
  \A p \in Paths(node) :
    IsToken(NodeAt(node, p)) \/ NodeAt(node, p).mode = MODE_AND
\* the paths of the tokens of an expression, from left to right
RECURSIVE Leaves(_, _)
Leaves(node, path) ==
  IF IsToken(node) THEN <<path>>
  ELSE IF Len(node.kids) = 2
       THEN Leaves(node.kids[1], Append(path, 1))
              \o Leaves(node.kids[2], Append(path, 2))
       ELSE <<>>
\* the token at path p is worth TRUE
HoldsAt(p) == TokenHolds(NodeAt(lang, p), arg_value, FALSE)
\* the position, among the tokens from left to right, of the first token
\* that is not worth TRUE
FirstFailure(leaves) ==
  CHOOSE f \in 1..Len(leaves) :
    /\ ~HoldsAt(leaves[f])
    /\ \A k \in 1..(f - 1) : HoldsAt(leaves[k])
\* the message eval.c returns for a failed token (lines 132-214)
MessageOf_evalc(node, value) ==
  IF node.mode = MODE_STD
  THEN ErrMsg_evalc(node, node.val, VALC_all(node.val)).sxp
  ELSE VALC_alike(node.val, value)

\* C19: for an expression whose calls are all calls of &&, a call that
\* fails has evaluated the tokens from left to right up to the first one that
\* fails, that token included and none after it, and returns one message,
\* the message of that token; in both evaluators.
C19_AllAndStopsAtFirstFailure ==
  AllAnd(lang) =>
    LET leaves == Leaves(lang, <<>>)
    IN /\ TraceFailed =>
            /\ \E k \in 1..Len(leaves) : ~HoldsAt(leaves[k])
            /\ trace_call.evald = SubSeq(leaves, 1, FirstFailure(leaves))
            /\ Len(trace_call.ret) = 1
            /\ trace_call.ret[1]
                 = VALC_error_extract(
                     EntryOf(NodeAt(lang, leaves[FirstFailure(leaves)]),
                             arg_value), ArgLang).sxp
       /\ (ListReturned /\ list_call.ret # R_TRUE) =>
            /\ \E k \in 1..Len(leaves) : ~HoldsAt(leaves[k])
            /\ list_call.evald = SubSeq(leaves, 1, FirstFailure(leaves))
            /\ list_call.ret.type = "LISTSXP"
            /\ Len(list_call.ret.list) = 1
            /\ list_call.ret.list[1]
                 = MessageOf_evalc(NodeAt(lang, leaves[FirstFailure(leaves)]),
                                   arg_value)

\* three tokens under two nested calls of &&: the first holds, the second
\* fails, the third is not evaluated, and each evaluator returns one message
C19_Witness ==
  /\ AllAnd(lang)
  /\ Len(Leaves(lang, <<>>)) = 3
  /\ TraceFailed /\ ListReturned
  /\ Len(trace_call.evald) = 2 /\ Len(list_call.evald) = 2
  /\ Len(trace_call.ret) = 1
  /\ list_call.ret.type = "LISTSXP"
  /\ Len(list_call.ret.list) = 1

\* C20: in part_000 the evaluation of a token that returns leaves the
\* protection stack one entry deeper than it found it, for a standard token
\* and for a template alike; the calls of && and || leave nothing of their
\* own, so that the recursion returns with one entry for each recorded
\* result; and when VALC_evaluate returns, with a pass or with messages, the
\* UNPROTECT of line 406 has brought the stack back to its depth at entry.
C20_ProtectBalance ==
  /\ trace_call.status # "idle" =>
       \A k \in 1..Len(trace_call.evald) :
         LET token == RecurseTrace(NodeAt(lang, trace_call.evald[k]))
         IN ~Failed(token) => token.depth = 1
  /\ TraceReturned =>
       /\ RecurseTrace(lang).depth = trace_call.res_list.idx
       /\ trace_call.depth = 0

\* a returned call that has recorded the results of a standard token and of
\* a template
C20_Witness ==
  /\ TraceReturned
  /\ trace_call.res_list.idx >= 2
  /\ \E k \in 1..trace_call.res_list.idx : trace_call.res_list.list[k].tpl = 0
  /\ \E k \in 1..trace_call.res_list.idx : trace_call.res_list.list[k].tpl = 1
  /\ trace_call.depth = 0

(***************************************************************************)
(* Nodes whose act_codes do not fit their expression.  VALC_parse does not *)
(* produce them; both evaluators test the fit on entering a node (part_000 *)
(* lines 58-87, 126-134, 180-184; eval.c lines 35-55, 100-102, 218-220).   *)
(***************************************************************************)
\* TYPEOF(lang): a call, a pairlist, a symbol
LangTypes == {"LANGSXP", "LISTSXP", "SYMSXP"}
\* TYPEOF(act_codes): a pairlist of codes, or one code
CodeTypes == {"LISTSXP", "INTSXP"}
\* TYPEOF(CAR(act_codes)) when act_codes is a pairlist
CarTypes == {"INTSXP", "LISTSXP"}
\* a code that is none of the four modes
MODE_UNKNOWN == MODE_STD + 1

\* the predicate that holds and the one that fails
PlainTokens == { t \in Tokens : t.val \in {R_TRUE, R_FALSE} }

\* a node with the given types of lang, act_codes and CAR(act_codes), and
\* the given code
Reshape(node, type, codes, car, mode) ==
  [node EXCEPT !.type = type, !.codes = codes, !.car = car, !.mode = mode]

\* tokens under their own code and under the codes that do not evaluate
\* them, and calls of two plain tokens under the codes that do not evaluate
\* them as a token, in every combination of types
ShapedNodes ==
  UNION { { Reshape(t, ty, c, ca, m) :
              ty \in LangTypes, c \in CodeTypes, ca \in CarTypes,
              m \in {MODE_AND, MODE_OR, t.mode, MODE_UNKNOWN} } :
          t \in Tokens }
    \cup
  { Reshape(Call(MODE_AND, <<l, r>>), ty, c, ca, m) :
      l \in PlainTokens, r \in PlainTokens, ty \in LangTypes,
      c \in CodeTypes, ca \in CarTypes,
      m \in {MODE_AND, MODE_OR, MODE_UNKNOWN} }

\* such a node, alone or as an argument of a well-shaped call
ShapeExprs ==
  ShapedNodes
    \cup { Call(m, <<t, n>>) :
             m \in {MODE_AND, MODE_OR}, t \in PlainTokens, n \in ShapedNodes }
    \cup { Call(m, <<n, t>>) :
             m \in {MODE_AND, MODE_OR}, t \in PlainTokens, n \in ShapedNodes }

InitShape ==
  /\ lang \in ShapeExprs
  /\ arg_value \in ArgValues
  /\ chr_code = -2
  /\ bad_format \in BadFormatOutcomes
  /\ trace_call = Idle
  /\ list_call = Idle

SpecShape == InitShape /\ [][Next]_vars

\* the code of the node is none of the four, or the shape of its codes does
\* not fit the shape of its expression
BadShape(node) ==
  \/ node.mode \notin {MODE_AND, MODE_OR, MODE_STD, MODE_TPL}
  \/ node.codes = "LISTSXP" /\ node.type \notin {"LANGSXP", "LISTSXP"}
  \/ node.codes # "LISTSXP" /\ node.type \in {"LANGSXP", "LISTSXP"}
  \/ node.mode \in {MODE_AND, MODE_OR} /\ node.type # "LANGSXP"

\* the evaluation of the subexpression at q was entered and recorded the
\* result of the last token it evaluated
Completed(call, q) ==
  /\ Entered(call, q)
  /\ SetMax(Under(call.evald, q)) <= call.res_list.idx

\* part_000: VALC_evaluate_recurse was called on the subexpression at p:
\* every call above it is a well-shaped && or ||, and every argument before
\* it was evaluated without ending the call
Visited(call, p) ==
  \A k \in 1..Len(p) :
    LET pp == SubSeq(p, 1, k - 1)
        parent == NodeAt(lang, pp)
    IN /\ ~BadShape(parent)
       /\ parent.car = "INTSXP"
       /\ parent.mode \in {MODE_AND, MODE_OR}
       /\ \A j \in 1..(p[k] - 1) :
            /\ Completed(call, Append(pp, j))
            /\ ~ReturnsEarly(parent.mode,
                             [success |-> OutcomeAt(call, Append(pp, j))])

\* the internal errors of the tests of mode and shape of part_000
ShapeFaults ==
  { "Internal Error: mismatched language and eval type tracking 1",
    "Internal error: no integer codes produced by parsing process",
    "Internal Error: mismatched language and eval type tracking 2",
    "Internal Error: in mode c(1, 2), but not a language object",
    "Internal Error: unexpected parse mode" }

\* C21: a node whose code is none of 1, 2, 10, 999, or whose codes do not
\* fit its expression (list-shaped codes on an expression that is neither a
\* call nor a list, one code on a call or list, mode 1 or 2 on a non-call),
\* makes VALC_evaluate_recurse of part_000 end in an internal error before
\* any token of the node is evaluated; nothing is returned for it.
\* The trace evaluator does not have this property: the call of error() for
\* list-shaped codes on a non-call (lines 61-64) has a format of two
\* conversions and one argument, and what it does is undefined.
C21_BadShapeAborts ==
  trace_call.status # "idle" =>
    \A p \in Paths(lang) :
      BadShape(NodeAt(lang, p)) =>
        /\ ~Entered(trace_call, p)
        /\ Visited(trace_call, p) =>
             /\ trace_call.status = "error"
             /\ trace_call.err \in ShapeFaults

\* eval.c: the evaluation of an expression on its own returned a pairlist of
\* messages
FailsList(run) == ~Failed(run) /\ run.ret.type = "LISTSXP"

\* C22: eval.c, VALC_evaluate_recurse against the evaluation of each
\* argument on its own, for every call of the expression.  A || whose two
\* arguments fail returns the messages of the first followed by the messages
\* of the second, each in its own order; a && with a failing argument
\* returns the messages of that argument and nothing else; a || with an
\* argument that succeeds returns TRUE, and none of the messages of a first
\* argument that failed.
C22_ListOfCall ==
  list_call.status # "idle" =>
    \A p \in Paths(lang) :
      LET node == NodeAt(lang, p)
      IN ~IsToken(node) =>
           LET l == RecurseList(node.kids[1])
               r == RecurseList(node.kids[2])
               n == RecurseList(node)
           IN /\ (node.mode = MODE_OR /\ FailsList(l) /\ FailsList(r)) =>
                   /\ FailsList(n)
                   /\ Elts(n.ret) = Elts(l.ret) \o Elts(r.ret)
              /\ (node.mode = MODE_AND /\ FailsList(l)) =>
                   /\ FailsList(n)
                   /\ n.ret = l.ret
              /\ (node.mode = MODE_AND /\ SucceedsList(l) /\ FailsList(r)) =>
                   /\ FailsList(n)
                   /\ n.ret = r.ret
              /\ (node.mode = MODE_OR /\ SucceedsList(l)) =>
                   n.ret = R_TRUE
              /\ (node.mode = MODE_OR /\ FailsList(l) /\ SucceedsList(r)) =>
                   n.ret = R_TRUE

\* the call failed on a || of a && that failed and of an argument that
\* failed with another message
C22_Witness ==
  /\ ListReturned
  /\ lang.mode = MODE_OR
  /\ ~IsToken(lang.kids[1])
  /\ lang.kids[1].mode = MODE_AND
  /\ FailsList(RecurseList(lang.kids[1]))
  /\ FailsList(RecurseList(lang.kids[2]))
  /\ RecurseList(lang.kids[1]).ret # RecurseList(lang.kids[2]).ret
  /\ Len(Elts(list_call.res)) = 2

\* C23: part_000 never reads res_list.list[res_list.idx - 1] with idx = 0.
\* The evaluation of any subexpression that returns normally has recorded
\* at least one result, so the read of line 102 after a recursive call is
\* inside the list, and so is the read of line 385, which is guarded by the
\* test of idx = 0 besides.
C23_ReadsInsideList ==
  trace_call.status # "idle" =>
    /\ trace_call.err # ReadBelowList
    /\ \A p \in Paths(lang) :
         LET r == RecurseTrace(NodeAt(lang, p))
         IN ~Failed(r) =>
              /\ r.res_list.idx >= 1
              /\ Len(r.res_list.list) = r.res_list.idx
    /\ TraceReturned =>
         /\ trace_call.res_list.idx >= 1
         /\ Len(trace_call.res_list.list) = trace_call.res_list.idx

\* a call whose second argument is a call returned: line 102 read the list
\* after each of three recursive calls that evaluated a token, and once more
\* after the inner call returned
C23_Witness ==
  /\ TraceReturned
  /\ lang.mode \in {MODE_AND, MODE_OR}
  /\ Len(lang.kids) = 2
  /\ lang.kids[2].mode \in {MODE_AND, MODE_OR}
  /\ Len(trace_call.evald) = 3
  /\ trace_call.res_list.idx = 3

\* C24: no sprintf of the message synthesis writes more bytes, the closing
\* NUL included, than R_alloc was asked for: the token of a value that is
\* not logical (the format holds one %s, so the text is one byte shorter
\* than the two lengths added) and the whole message (three %s, five bytes
\* shorter than the four lengths added), in part_000 and in eval.c, for
\* every token rendered.
C24_WritesInsideBuffers ==
  /\ trace_call.status # "idle" => trace_call.err # WriteBeyondBuffer
  /\ list_call.status # "idle" => list_call.err # WriteBeyondBuffer
  /\ TraceFailed =>
       \A j \in 1..Len(FailedEntries(trace_call)) :
         LET res == FailedEntries(trace_call)[j]
             node == res.dat[1]
             eval_tmp == res.dat[2]
             code == VALC_all(eval_tmp)
             tok == ErrTok(code, eval_tmp).tok
         IN Synthesized(res) =>
              /\ BytesWritten(trace_call.ret[j].strs[1])
                   <= MsgAllocSize(ALIKEC_pad_or_quote(node), ErrExtra(code), tok)
              /\ code = -2 =>
                   BytesWritten(tok) <= TokAllocSize(type2char(eval_tmp.type))
  /\ list_call.status # "idle" =>
       \A node \in Evaluated(list_call) :
         (FailsStd(node) /\ node.errmsg = R_NilValue
            /\ VALC_all(node.val) # -6) =>
           LET code == VALC_all(node.val)
               tok == ErrTok_evalc(code, node.val).tok
               msg == ErrMsg_evalc(node, node.val, code).sxp.strs[1]
           IN /\ BytesWritten(msg)
                   <= MsgAllocSize_evalc(node.expr, ErrExtra(code), tok)
              /\ code = -2 =>
                   BytesWritten(tok)
                     <= TokAllocSize_evalc(type2char(node.val.type))

\* both evaluators returned the message of a value that is not logical, for
\* which both buffers were filled
C24_Witness ==
  /\ TraceFailed
  /\ ListReturned
  /\ \E j \in 1..Len(FailedEntries(trace_call)) :
       LET res == FailedEntries(trace_call)[j]
       IN /\ Synthesized(res)
          /\ VALC_all(res.dat[2]) = -2
          /\ res.dat[2].type = "STRSXP"
          /\ MessageOf_evalc(res.dat[1], arg_value) \in
               { list_call.res.list[k] : k \in 1..Len(Elts(list_call.res)) }

\* C25: on an expression none of whose evaluated tokens raises an error the
\* two evaluators agree on the verdict, eval.c returning TRUE exactly when
\* part_000 returns no message, and evaluate the same tokens in the same
\* order.
C25_EvaluatorsAgree ==
  /\ (trace_call.status # "idle" /\ list_call.status # "idle") =>
       (TraceReturned <=> ListReturned)
  /\ (TraceReturned /\ ListReturned) =>
    /\ trace_call.evald = list_call.evald
    /\ (trace_call.ret = allocVector(0)) <=> (list_call.ret = R_TRUE)
    /\ Passes(trace_call.res_list) <=> (list_call.res = R_TRUE)

\* both evaluators evaluated three tokens and failed
C25_Witness ==
  /\ TraceReturned
  /\ ListReturned
  /\ Len(trace_call.evald) = 3
  /\ list_call.ret # R_TRUE

\* eval.c: the tokens whose messages VALC_evaluate_recurse returns for the
\* subexpression at path, in the order of the pairlist: the token itself
\* when it fails, the tokens of the failing argument of a &&, the tokens of
\* both arguments of a || when both fail, none for a subexpression that
\* succeeds
RECURSIVE ReportedLeaves_evalc(_, _)
ReportedLeaves_evalc(node, path) ==
  IF IsToken(node)
  THEN IF FailsList(RecurseList(node)) THEN <<path>> ELSE <<>>
  ELSE LET l == node.kids[1]
           r == node.kids[2]
       IN IF ~FailsList(RecurseList(node)) THEN <<>>
          ELSE IF node.mode = MODE_AND
               THEN IF FailsList(RecurseList(l))
                    THEN ReportedLeaves_evalc(l, Append(path, 1))
                    ELSE ReportedLeaves_evalc(r, Append(path, 2))
               ELSE ReportedLeaves_evalc(l, Append(path, 1))
                      \o ReportedLeaves_evalc(r, Append(path, 2))

\* part_000: the tokens VALC_evaluate renders a message for, in the order of
\* the list it returns: those of the failed entries of the trace
ReportedLeaves(call) ==
  LET failed == SelectSeq([k \in 1..call.res_list.idx |-> k],
                          LAMBDA k : ~call.res_list.list[k].success)
  IN [j \in 1..Len(failed) |-> call.evald[failed[j]]]

\* the token at path lies in a || that was evaluated to a success
InsideSucceededOr(call, path) ==
  \E k \in 0..(Len(path) - 1) :
    LET q == SubSeq(path, 1, k)
    IN /\ NodeAt(lang, q).mode = MODE_OR
       /\ OutcomeAt(call, q)

\* C26: when the call fails without a token raising an error, the tokens
\* part_000 reports are the tokens whose messages VALC_evaluate_recurse of
\* eval.c returns, in the same order, and none of them lies in a || that
\* succeeded.  part_000 does not have this property: it renders every failed
\* entry of the trace (lines 390-401), and the failed first argument of a ||
\* whose second argument succeeded is one of them.
C26_SameLeavesReported ==
  (TraceFailed /\ ListReturned) =>
    /\ ReportedLeaves(trace_call) = ReportedLeaves_evalc(lang, <<>>)
    /\ \A j \in 1..Len(ReportedLeaves(trace_call)) :
         ~InsideSucceededOr(trace_call, ReportedLeaves(trace_call)[j])

\* C27: the pass of eval.c that removes duplicates (lines 255-270), applied
\* to the list it has produced, leaves it as it is.  The pass does not have
\* this property: after unlinking the cell that follows res_cpy the loop
\* steps onto the unlinked cell, so of three identical messages in a row it
\* removes the second only, and a second pass removes one more.
C27_RemoveDupsIdempotent ==
  (ListReturned /\ list_call.ret.type = "LISTSXP") =>
    LET again == RemoveDups(Elts(list_call.ret))
    IN /\ again.err = ""
       /\ again.list = Elts(list_call.ret)

\* the expression is false of the value being validated
CallFails == ~\E e \in BOOLEAN : Denotes(lang, arg_value, e)

\* C28: a call that returns hands back messages exactly when the expression
\* is false.  part_000: the list is empty for a pass; for a failure the count
\* of failures is at least one and every slot of the list allocated for that
\* count holds a character vector.  eval.c: TRUE for a pass; for a failure a
\* pairlist of at least one element, every element a character vector.
C28_NonEmptyIffFails ==
  /\ TraceReturned =>
       /\ (trace_call.ret # allocVector(0)) <=> CallFails
       /\ CallFails =>
            /\ CountFails(trace_call.res_list, 0) >= 1
            /\ Len(trace_call.ret) = CountFails(trace_call.res_list, 0)
            /\ \A j \in 1..Len(trace_call.ret) :
                 /\ trace_call.ret[j] # R_NilValue
                 /\ trace_call.ret[j].type = "STRSXP"
  /\ ListReturned =>
       /\ (list_call.ret # R_TRUE) <=> CallFails
       /\ CallFails =>
            /\ list_call.ret.type = "LISTSXP"
            /\ Len(Elts(list_call.ret)) >= 1
            /\ \A j \in 1..Len(Elts(list_call.ret)) :
                 list_call.ret.list[j].type = "STRSXP"

\* both evaluators returned from a failing call in which a success was
\* recorded: part_000 a list of two messages, eval.c a pairlist
C28_Witness ==
  /\ TraceReturned
  /\ ListReturned
  /\ CallFails
  /\ \E k \in 1..trace_call.res_list.idx : trace_call.res_list.list[k].success
  /\ Len(trace_call.ret) = 2
  /\ Len(Elts(list_call.ret)) >= 1


====
